---------------------------- MODULE Spec2Model ----------------------------
(***************************************************************************)
(* Model of OutlierHandler (src/outlier_handler.py) and percentage         *)
(* (src/base_data_science_utils.py).                                       *)
(*                                                                         *)
(* A DataFrame is a record [index, columns]: index is the sequence of row  *)
(* labels, columns the sequence of the frame's columns in df.columns       *)
(* order; a column is [name, dtype, data] and a cell of data is            *)
(* [isna, val].  Selecting rows keeps their labels, as pandas does, so a   *)
(* derived frame knows its rows only by label.                             *)
(*                                                                         *)
(* Arithmetic is exact: a quantile is carried as four times its value, a   *)
(* z-score as the fraction num/den of its square, a percentage as the      *)
(* integer number of 10^-digits units.  The rounding of the doubles shows  *)
(* only where a z-score is exactly the threshold; there the comparison     *)
(* may come out either way.                                                *)
(*                                                                         *)
(* The handler keeps no state but calculation_method, so a behaviour is    *)
(* the construction of a handler, a table of the caller's, and one call;   *)
(* call, ret and stdout record the call, its outcome and what it printed.  *)
(***************************************************************************)
EXTENDS Integers, Sequences, FiniteSets, TLC

VARIABLES calculation_method, df, call, ret, stdout

vars == <<calculation_method, df, call, ret, stdout>>

-----------------------------------------------------------------------------
(* Bounds of the model *)

MaxRows == 4

MaxVal == 1

MaxRowsWide == 1

MaxRowsZ == 11

-----------------------------------------------------------------------------
(* Program constants *)

INTERQUARTILE == "interquartile"

ZSCORE == "zscore"

OutlierCalculationMethod == {INTERQUARTILE, ZSCORE}

iqr_threshold_num == 3

iqr_threshold_den == 2

zscore_threshold == 3

digits == 4

-----------------------------------------------------------------------------
(* Outcomes of a call *)

Return(v) == [kind |-> "return", value |-> v]

Raise(e) == [kind |-> "raise", error |-> e]

-----------------------------------------------------------------------------
(* The tabular container (pandas), as far as the handler uses it *)

NA == [isna |-> TRUE, val |-> 0]

Num(v) == [isna |-> FALSE, val |-> v]

Column(name, dtype, data) == [name |-> name, dtype |-> dtype, data |-> data]

RowCount(t) == Len(t.index)

HasColumn(t, column) == \E j \in 1..Len(t.columns) : t.columns[j].name = column

ColumnOf(t, column) ==
    t.columns[CHOOSE j \in 1..Len(t.columns) : t.columns[j].name = column]

is_numeric_dtype(col) == col.dtype = "float64"

NumericColumns(t) ==
    {t.columns[j].name : j \in {k \in 1..Len(t.columns) : is_numeric_dtype(t.columns[k])}}

(* The subsequence of s at the positions in keep, in order. *)
SubSeqAt(s, keep) ==
    LET F[i \in 0..Len(s)] ==
            IF i = 0 THEN <<>>
            ELSE IF i \in keep THEN Append(F[i - 1], s[i]) ELSE F[i - 1]
    IN  F[Len(s)]

(* df[mask]: the rows at the positions in keep, labels kept. *)
BooleanFilter(t, keep) ==
    [index   |-> SubSeqAt(t.index, keep),
     columns |-> [j \in 1..Len(t.columns) |->
                     [t.columns[j] EXCEPT !.data = SubSeqAt(@, keep)]]]

IndexLabels(t) == {t.index[i] : i \in 1..Len(t.index)}

(* The non-missing values of a column's data, in row order. *)
Present(data) == SelectSeq(data, LAMBDA c : ~c.isna)

Unwrap(cells) == [i \in 1..Len(cells) |-> cells[i].val]

RECURSIVE Insert(_, _)
Insert(s, x) ==
    IF s = <<>> THEN <<x>>
    ELSE IF x <= Head(s) THEN <<x>> \o s
    ELSE <<Head(s)>> \o Insert(Tail(s), x)

RECURSIVE Sorted(_)
Sorted(s) == IF s = <<>> THEN <<>> ELSE Insert(Sorted(Tail(s)), Head(s))

(* The point at position (n - 1) * num / 4 of the ranked values s, by      *)
(* linear interpolation between its neighbours, times four; NaN when       *)
(* there is no value.                                                      *)
Interpolate4(s, num) ==
    LET h   == (Len(s) - 1) * num
        lo  == (h \div 4) + 1
        rem == h % 4
    IN  IF Len(s) = 0 THEN [nan |-> TRUE, q4 |-> 0]
        ELSE IF rem = 0 THEN [nan |-> FALSE, q4 |-> 4 * s[lo]]
        ELSE [nan |-> FALSE, q4 |-> 4 * s[lo] + (s[lo + 1] - s[lo]) * rem]

(* Series.quantile(num / 4), interpolation 'linear'; missing values are    *)
(* skipped.  The result is four times the quantile.                        *)
Quantile4(data, num) == Interpolate4(Sorted(Unwrap(Present(data))), num)

RECURSIVE SumSeq(_)
SumSeq(s) == IF s = <<>> THEN 0 ELSE Head(s) + SumSeq(Tail(s))

Squares(v) == [i \in 1..Len(v) |-> v[i] * v[i]]

(* The scores of the values v with sum S and sum of squares SS, for the    *)
(* standard deviation with ddof degrees of freedom taken off: score i is   *)
(* the fraction num/den of its square, NaN when nan holds or when the      *)
(* standard deviation is zero (0/0).                                       *)
Scores(v, S, SS, ddof, nan) ==
    [i \in 1..Len(v) |->
        IF nan \/ Len(v) * (Len(v) * SS - S * S) = 0
        THEN [nan |-> TRUE, num |-> 0, den |-> 1]
        ELSE [nan |-> FALSE,
              num |-> (Len(v) * v[i] - S) * (Len(v) * v[i] - S) * (Len(v) - ddof),
              den |-> Len(v) * (Len(v) * SS - S * S)]]

(* scipy.stats.zscore(a) with its defaults (ddof = 0, nan_policy =         *)
(* 'propagate'): one score per value, (v - mean) / std.  A missing value   *)
(* makes every score NaN.                                                  *)
zscore(a) ==
    Scores(Unwrap(a), SumSeq(Unwrap(a)), SumSeq(Squares(Unwrap(a))), 0,
           \E i \in 1..Len(a) : a[i].isna)

(* The score is, in exact arithmetic, the threshold itself. *)
Tied(z, threshold) == ~z.nan /\ z.num = threshold * threshold * z.den

(* AbsGreater, were a NaN score to count as above the threshold. *)
AbsGreaterOrNaN(z, threshold, up) ==
    z.nan \/ z.num > threshold * threshold * z.den \/ (up /\ Tied(z, threshold))

(* np.abs(z) > threshold; a comparison with NaN is False.  The scores are  *)
(* doubles: one that is exactly the threshold in exact arithmetic comes    *)
(* out a rounding error above it (up) or not, as the values have it (of    *)
(* ten values, nine 0 and one 7 give 3.0000000000000004, nine 0 and one 1  *)
(* give 2.9999999999999996).  Any other score is further from the          *)
(* threshold than the rounding errors reach.                               *)
AbsGreater(z, threshold, up) ==
    ~z.nan /\ (z.num > threshold * threshold * z.den \/ (up /\ Tied(z, threshold)))

-----------------------------------------------------------------------------
(* percentage (src/base_data_science_utils.py) *)

RECURSIVE Pow10(_)
Pow10(n) == IF n = 0 THEN 1 ELSE 10 * Pow10(n - 1)

(* The integer nearest to N / D, ties to even. *)
RoundDiv(N, D) ==
    IF 2 * (N % D) < D THEN N \div D
    ELSE IF 2 * (N % D) > D THEN (N \div D) + 1
    ELSE IF (N \div D) % 2 = 0 THEN N \div D ELSE (N \div D) + 1

(* round(num / den, nd), in units of 10^-nd. *)
Round(num, den, nd) == RoundDiv(num * Pow10(nd), den)

percentage(part, whole) ==
    IF whole = 0 THEN Raise("ZeroDivisionError")
    ELSE Return(Round(100 * part, whole, digits))

-----------------------------------------------------------------------------
(* OutlierHandler *)

(* OutsideFences, were a value on a fence to count as outside it. *)
OutsideFencesInclusive(data, Q1, Q3) ==
    {i \in 1..Len(data) :
        /\ ~Q1.nan /\ ~Q3.nan /\ ~data[i].isna
        /\ \/ 4 * iqr_threshold_den * data[i].val
                 <= iqr_threshold_den * Q1.q4 - iqr_threshold_num * (Q3.q4 - Q1.q4)
           \/ 4 * iqr_threshold_den * data[i].val
                 >= iqr_threshold_den * Q3.q4 + iqr_threshold_num * (Q3.q4 - Q1.q4)}

(* The rows of data outside [Q1 - threshold * IQR, Q3 + threshold * IQR];  *)
(* Q1 and Q3 come as four times their value, so every term is taken        *)
(* 4 * iqr_threshold_den times.                                            *)
OutsideFences(data, Q1, Q3) ==
    {i \in 1..Len(data) :
        /\ ~Q1.nan /\ ~Q3.nan /\ ~data[i].isna
        /\ \/ 4 * iqr_threshold_den * data[i].val
                 < iqr_threshold_den * Q1.q4 - iqr_threshold_num * (Q3.q4 - Q1.q4)
           \/ 4 * iqr_threshold_den * data[i].val
                 > iqr_threshold_den * Q3.q4 + iqr_threshold_num * (Q3.q4 - Q1.q4)}

calculate_outliers_interquartile(t, column) ==
    BooleanFilter(t, OutsideFences(ColumnOf(t, column).data,
                                   Quantile4(ColumnOf(t, column).data, 1),
                                   Quantile4(ColumnOf(t, column).data, 3)))

(* AboveThreshold, were the threshold one lower. *)
AboveLowerThreshold(z, data, column, ties) ==
    {i \in 1..Len(z) :
        AbsGreater(z[i], zscore_threshold - 1, <<column, data[i].val>> \in ties)}

(* ties: the values, each with its column, whose score is the threshold in *)
(* exact arithmetic and above it as a double.                              *)
AboveThreshold(z, data, column, ties) ==
    {i \in 1..Len(z) :
        AbsGreater(z[i], zscore_threshold, <<column, data[i].val>> \in ties)}

calculate_outliers_zscore(t, column, ties) ==
    BooleanFilter(t, AboveThreshold(zscore(ColumnOf(t, column).data),
                                    ColumnOf(t, column).data, column, ties))

outlier_calculation_methods(method, t, column, ties) ==
    IF method = INTERQUARTILE THEN calculate_outliers_interquartile(t, column)
    ELSE calculate_outliers_zscore(t, column, ties)

filter_dataframe_out(t, filter) ==
    BooleanFilter(t, {i \in 1..Len(t.index) : t.index[i] \notin IndexLabels(filter)})

get_missing(t, column) ==
    IF ~HasColumn(t, column) THEN Raise("KeyError")
    ELSE Return(BooleanFilter(t,
            {i \in 1..RowCount(t) : ColumnOf(t, column).data[i].isna}))

get_non_missing(t, column) ==
    IF ~HasColumn(t, column) THEN Raise("KeyError")
    ELSE Return(BooleanFilter(t,
            {i \in 1..RowCount(t) : ~ColumnOf(t, column).data[i].isna}))

(* What pandas and scipy make of the rule's arithmetic on a column that is *)
(* not numeric is theirs to decide (a column of str raises TypeError, a    *)
(* column of datetime64 has quantiles): lib is that outcome.               *)
LibraryOutcomes(t, column) ==
    IF HasColumn(t, column) /\ ~is_numeric_dtype(ColumnOf(t, column))
    THEN {"TypeError", "rows"}
    ELSE {"numeric"}

(* The dispatch of get_outliers, given what get_non_missing came to. *)
Dispatch(method, non_na_df, column, lib, ties) ==
    IF non_na_df.kind = "raise" THEN non_na_df
    ELSE IF lib = "TypeError" THEN Raise("TypeError")
    ELSE IF lib = "rows" THEN Return(BooleanFilter(non_na_df.value, {}))
    ELSE Return(outlier_calculation_methods(method, non_na_df.value, column, ties))

get_outliers(method, t, column, lib, ties) ==
    Dispatch(method, get_non_missing(t, column), column, lib, ties)

(* The last line of get_non_outliers, given its two frames. *)
FilterOut(non_na_df, outliers_df) ==
    IF non_na_df.kind = "raise" THEN non_na_df
    ELSE IF outliers_df.kind = "raise" THEN outliers_df
    ELSE Return(filter_dataframe_out(non_na_df.value, outliers_df.value))

get_non_outliers(method, t, column, lib, ties) ==
    FilterOut(get_non_missing(t, column), get_outliers(method, t, column, lib, ties))

(* The values of the columns named, each with its column, whose score is   *)
(* the threshold in exact arithmetic.                                      *)
TiedScores(method, t, names) ==
    IF method # ZSCORE THEN {}
    ELSE UNION {{<<c, Present(ColumnOf(t, c).data)[i].val>> :
                    i \in {k \in 1..Len(Present(ColumnOf(t, c).data)) :
                              Tied(zscore(Present(ColumnOf(t, c).data))[k],
                                   zscore_threshold)}} :
                c \in {d \in names : HasColumn(t, d)}}

(* One printed line.  The text is the line's fixed part; the column name,  *)
(* a count and a percentage are what the f-strings put into it.            *)
Line(text, column, count, pct) ==
    [text |-> text, column |-> column, count |-> count, pct |-> pct]

(* The lines __log_column_information prints for one column. *)
LogLines(column, information) ==
    << Line("", column, 0, 0),
       Line("Missing Values = ", column, information.missing_values_count,
            information.missing_values_percentage),
       Line("Outlier Values = ", column, information.outlier_values_count,
            information.outlier_values_percentage),
       Line("Non Outlier Values = ", column, information.non_outlier_values_count,
            information.non_outlier_values_percentage),
       Line("\n", column, 0, 0) >>

(* keys: the dict's keys in insertion order *)
log_column_information(outliers_information, keys) ==
    LET F[k \in 0..Len(keys)] ==
            IF k = 0 THEN <<>>
            ELSE F[k - 1] \o LogLines(keys[k], outliers_information[keys[k]])
    IN  F[Len(keys)]

(* The entry of result for one column, from its counts and percentages     *)
(* (lines 99 to 110), or the error a percentage raised.                    *)
Entry(mc, oc, nc, p1, p2, p3, frames, output_dataframes) ==
    IF p1.kind = "raise" THEN [error |-> p1.error, entry |-> <<>>]
    ELSE [error |-> "",
          entry |-> [missing_values_count          |-> mc,
                     missing_values_percentage     |-> p1.value,
                     outlier_values_count          |-> oc,
                     outlier_values_percentage     |-> p2.value,
                     non_outlier_values_count      |-> nc,
                     non_outlier_values_percentage |-> p3.value]
                    @@ (IF output_dataframes THEN frames ELSE <<>>)]

(* The check of the counts (lines 96 and 97) and the entry. *)
Counted(column, df_total_rows, mc, oc, nc, frames, output_dataframes) ==
    [warning |-> IF mc + oc + nc # df_total_rows
                 THEN << Line("WARNING: Value Counts does not match", column, 0, 0) >>
                 ELSE <<>>]
    @@ Entry(mc, oc, nc,
             percentage(mc, df_total_rows),
             percentage(oc, df_total_rows),
             percentage(nc, df_total_rows),
             frames, output_dataframes)

Classified(column, df_total_rows, frames, output_dataframes) ==
    Counted(column, df_total_rows,
            RowCount(frames.missing_values_df),
            RowCount(frames.outlier_values_df),
            RowCount(frames.non_outlier_values_df),
            frames, output_dataframes)

(* The body of the loop of get_outliers_information for one selected       *)
(* column: the entry of result, the warning printed, the error raised.     *)
ColumnInformation(method, t, column, output_dataframes, ties) ==
    Classified(column, RowCount(t),
        [missing_values_df     |-> get_missing(t, column).value,
         outlier_values_df     |->
             get_outliers(method, t, column, "numeric", ties).value,
         non_outlier_values_df |->
             get_non_outliers(method, t, column, "numeric", ties).value],
        output_dataframes)

(* What one turn of the loop leaves: prev is the state before it (the dict *)
(* so far, its keys in insertion order, what was printed, the error raised *)
(* if any), info what the turn's column came to.                           *)
Merge(prev, name, info) ==
    IF info.error # ""
    THEN [prev EXCEPT !.error = info.error, !.out = @ \o info.warning]
    ELSE [error  |-> "",
          result |-> (name :> info.entry) @@ prev.result,
          keys   |-> Append(prev.keys, name),
          out    |-> prev.out \o info.warning]

LoopStep(prev, method, t, col, output_dataframes, columns, ties) ==
    IF prev.error # "" THEN prev
    ELSE IF ~(is_numeric_dtype(col) /\ (columns = {} \/ col.name \in columns))
    THEN prev
    ELSE Merge(prev, col.name,
               ColumnInformation(method, t, col.name, output_dataframes, ties))

RECURSIVE Loop(_, _, _, _, _, _)
Loop(j, method, t, output_dataframes, columns, ties) ==
    IF j = 0 THEN [error |-> "", result |-> <<>>, keys |-> <<>>, out |-> <<>>]
    ELSE LoopStep(Loop(j - 1, method, t, output_dataframes, columns, ties),
                  method, t, t.columns[j], output_dataframes, columns, ties)

(* The end of get_outliers_information, after the loop. *)
Finish(end, log_information) ==
    IF end.error # ""
    THEN [outcome |-> Raise(end.error), out |-> end.out]
    ELSE [outcome |-> Return(end.result),
          out     |-> IF log_information
                      THEN end.out \o log_column_information(end.result, end.keys)
                      ELSE end.out]

(* columns is the caller's list, read only by bool(columns) and `in`. *)
get_outliers_information(method, t, output_dataframes, columns, log_information, ties) ==
    Finish(Loop(Len(t.columns), method, t, output_dataframes, columns, ties),
           log_information)

-----------------------------------------------------------------------------
(* The caller's tables *)

Cells == {NA} \cup {Num(v) : v \in 0..MaxVal}

(* The index of n rows put together from frames of k rows each, every one  *)
(* with its own 0..k-1 (pd.concat); k = n is the default RangeIndex.       *)
IndexChoices(n) ==
    IF n = 0 THEN {<<>>}
    ELSE {[i \in 1..n |-> (i - 1) % k] : k \in 1..n}

RangeIndex(n) == [i \in 1..n |-> i - 1]

NarrowTable(idx, data) ==
    [index |-> idx, columns |-> <<Column("a", "float64", data)>>]

WideTable(n, a, b) ==
    [index   |-> RangeIndex(n),
     columns |-> <<Column("a", "float64", a),
                   Column("s", "object", [i \in 1..n |-> Num(0)]),
                   Column("b", "float64", b)>>]

TextTable(n) ==
    [index   |-> RangeIndex(n),
     columns |-> <<Column("s", "object", [i \in 1..n |-> Num(0)])>>]

(* The column [1, 2, 3, 4, 5, 100]. *)
ScenarioTable ==
    NarrowTable(RangeIndex(6), <<Num(1), Num(2), Num(3), Num(4), Num(5), Num(100)>>)

(* The caller's table is one numeric column of up to MaxRows rows; or two  *)
(* numeric columns around one that is not, or that one alone, of up to     *)
(* MaxRowsWide rows; or the scenario's.                                    *)
IsTable(t) ==
    \/ \E n \in 0..MaxRows : \E idx \in IndexChoices(n), data \in [1..n -> Cells] :
          t = NarrowTable(idx, data)
    \/ \E n \in 0..MaxRowsWide : \E a \in [1..n -> Cells], b \in [1..n -> Cells] :
          t = WideTable(n, a, b)
    \/ \E n \in 0..MaxRowsWide : t = TextTable(n)
    \/ t = ScenarioTable

(* A long column of the values 0 and 1, the first of which may be missing  *)
(* and the last of which may be the far value 7, for the rule whose        *)
(* verdict turns on the number of values.                                  *)
LongData(n, first, rest, last) ==
    [i \in 1..n |-> IF i = 1 THEN first
                    ELSE IF i = n THEN Num(last) ELSE Num(rest[i])]

IsLongTable(t) ==
    \E n \in 0..MaxRowsZ :
        \E first \in {NA, Num(0)}, rest \in [2..(n - 1) -> {0, 1}],
           last \in {0, 1, 7} :
            t = NarrowTable(RangeIndex(n), LongData(n, first, rest, last))

(* The arguments the caller passes. *)
ColumnArgs == {"a", "s", "zz"}

ColumnsArgs == {{}, {"a", "s"}, {"b", "zz"}}

-----------------------------------------------------------------------------
(* Construction and the calls *)

NoCall == [op |-> "none"]

NoRet == [kind |-> "none"]

TypeOK ==
    /\ calculation_method \in OutlierCalculationMethod
    /\ call.op \in {"none", "get_missing", "get_non_missing", "get_outliers",
                    "get_non_outliers", "get_outliers_information"}
    /\ ret.kind \in {"none", "return", "raise"}

Construct(methods) ==
    /\ calculation_method \in methods
    /\ call = NoCall
    /\ ret = NoRet
    /\ stdout = <<>>

Init == Construct(OutlierCalculationMethod) /\ IsTable(df)

(* OutlierHandler(), the default method. *)
InitLong == Construct({ZSCORE}) /\ IsLongTable(df)

GetMissing ==
    /\ call = NoCall
    /\ \E column \in ColumnArgs :
          /\ call' = [op |-> "get_missing", column |-> column]
          /\ ret' = get_missing(df, column)
    /\ UNCHANGED <<calculation_method, df, stdout>>

GetNonMissing ==
    /\ call = NoCall
    /\ \E column \in ColumnArgs :
          /\ call' = [op |-> "get_non_missing", column |-> column]
          /\ ret' = get_non_missing(df, column)
    /\ UNCHANGED <<calculation_method, df, stdout>>

GetOutliers ==
    /\ call = NoCall
    /\ \E column \in ColumnArgs : \E lib \in LibraryOutcomes(df, column),
             ties \in SUBSET TiedScores(calculation_method, df, {column}) :
          /\ call' = [op |-> "get_outliers", column |-> column]
          /\ ret' = get_outliers(calculation_method, df, column, lib, ties)
    /\ UNCHANGED <<calculation_method, df, stdout>>

GetNonOutliers ==
    /\ call = NoCall
    /\ \E column \in ColumnArgs : \E lib \in LibraryOutcomes(df, column),
             ties \in SUBSET TiedScores(calculation_method, df, {column}) :
          /\ call' = [op |-> "get_non_outliers", column |-> column]
          /\ ret' = get_non_outliers(calculation_method, df, column, lib, ties)
    /\ UNCHANGED <<calculation_method, df, stdout>>

InformationCall(output_dataframes, columns, log_information, r) ==
    /\ call' = [op |-> "get_outliers_information",
                output_dataframes |-> output_dataframes,
                columns |-> columns,
                log_information |-> log_information]
    /\ ret' = r.outcome
    /\ stdout' = r.out

GetOutliersInformation ==
    /\ call = NoCall
    /\ \E output_dataframes \in BOOLEAN, columns \in ColumnsArgs,
          log_information \in BOOLEAN,
          ties \in SUBSET TiedScores(calculation_method, df, NumericColumns(df)) :
          InformationCall(output_dataframes, columns, log_information,
              get_outliers_information(calculation_method, df,
                  output_dataframes, columns, log_information, ties))
    /\ UNCHANGED <<calculation_method, df>>

Next ==
    \/ GetMissing
    \/ GetNonMissing
    \/ GetOutliers
    \/ GetNonOutliers
    \/ GetOutliersInformation

Spec == Init /\ [][Next]_vars

SpecLong == InitLong /\ [][Next]_vars

-----------------------------------------------------------------------------
(* Vocabulary of the properties *)

(* The columns get_outliers_information is asked to report. *)
Asked(t, columns) ==
    IF columns = {} THEN NumericColumns(t) ELSE NumericColumns(t) \cap columns

Returned(op) == call.op = op /\ ret.kind = "return"

Warnings == {i \in 1..Len(stdout) : stdout[i].text = "WARNING: Value Counts does not match"}

(* The values of column a that are present, in row order, and their number. *)
PresentValues == Unwrap(Present(ColumnOf(df, "a").data))

PresentCount == Len(PresentValues)

(* The frame of the rows of df whose value in column a is present and      *)
(* satisfies P.                                                            *)
RowsWhere(P(_)) ==
    BooleanFilter(df, {i \in 1..RowCount(df) :
        /\ ~ColumnOf(df, "a").data[i].isna
        /\ P(ColumnOf(df, "a").data[i].val)})

-----------------------------------------------------------------------------
(* C1.  For every table and numeric column, under either method, the       *)
(* missing, outlier and non-outlier rows that get_outliers_information     *)
(* reports partition the table's rows by index label: the labels of the    *)
(* three frames together are the table's labels, their sizes sum to the    *)
(* table's row count, and the 'Value Counts ... does not match' warning is *)
(* never printed.                                                          *)
C1_Partition ==
    (Returned("get_outliers_information") /\ call.output_dataframes) =>
        /\ Warnings = {}
        /\ \A c \in DOMAIN ret.value :
              /\ IndexLabels(ret.value[c].missing_values_df)
                    \cup IndexLabels(ret.value[c].outlier_values_df)
                    \cup IndexLabels(ret.value[c].non_outlier_values_df)
                    = IndexLabels(df)
              /\ ret.value[c].missing_values_count
                    + ret.value[c].outlier_values_count
                    + ret.value[c].non_outlier_values_count = RowCount(df)
              /\ RowCount(ret.value[c].missing_values_df)
                    + RowCount(ret.value[c].outlier_values_df)
                    + RowCount(ret.value[c].non_outlier_values_df) = RowCount(df)

-----------------------------------------------------------------------------
(* C5.  get_outliers_information on a table with 0 rows and a numeric      *)
(* column it is asked to report completes without raising, and the entry   *)
(* of that column has its three counts 0 and its three percentages 0.0.    *)
C5_EmptyTableReport ==
    (call.op = "get_outliers_information" /\ RowCount(df) = 0
        /\ Asked(df, call.columns) # {}) =>
        /\ ret.kind = "return"
        /\ \A c \in Asked(df, call.columns) :
              /\ c \in DOMAIN ret.value
              /\ ret.value[c].missing_values_count = 0
              /\ ret.value[c].outlier_values_count = 0
              /\ ret.value[c].non_outlier_values_count = 0
              /\ ret.value[c].missing_values_percentage = 0
              /\ ret.value[c].outlier_values_percentage = 0
              /\ ret.value[c].non_outlier_values_percentage = 0

-----------------------------------------------------------------------------
(* C6.  get_outliers on a column that the table does not have, or that is  *)
(* not numeric, fails with an InvalidColumnError and never returns rows.   *)
C6_InvalidColumnError ==
    (call.op = "get_outliers"
        /\ (~HasColumn(df, call.column)
               \/ ~is_numeric_dtype(ColumnOf(df, call.column)))) =>
        ret = Raise("InvalidColumnError")

-----------------------------------------------------------------------------
(* C7.  get_outliers_information returns a mapping whose keys are exactly  *)
(* the table's numeric columns named in columns (all of them when columns  *)
(* is empty); a column that is skipped has no entry and nothing is printed *)
(* about it; an entry carries the three frames iff output_dataframes.      *)
C7_ReportKeys ==
    (call.op = "get_outliers_information") =>
        /\ ret.kind = "return"
        /\ DOMAIN ret.value = Asked(df, call.columns)
        /\ \A i \in 1..Len(stdout) : stdout[i].column \in Asked(df, call.columns)
        /\ \A c \in DOMAIN ret.value :
              ("outlier_values_df" \in DOMAIN ret.value[c]
                  /\ "missing_values_df" \in DOMAIN ret.value[c]
                  /\ "non_outlier_values_df" \in DOMAIN ret.value[c])
              <=> call.output_dataframes

-----------------------------------------------------------------------------
(* C8.  For a table with at least one row, each percentage of a reported   *)
(* column is round(100 * count / total_row_count, 4), the total counting   *)
(* the missing rows too, and the three percentages sum to 100.0 within     *)
(* 0.00015.  Percentages are in units of 10^-4, so 100.0 is 1000000 and    *)
(* a distance within 0.00015 is a distance of at most 1.                   *)
IsRounded(p, count, total) ==
    /\ 2 * (p * total - 1000000 * count) <= total
    /\ 2 * (1000000 * count - p * total) <= total
    /\ (2 * (p * total - 1000000 * count) \in {total, -total}) => p % 2 = 0

PercentSum(e) ==
    e.missing_values_percentage + e.outlier_values_percentage
        + e.non_outlier_values_percentage

C8_Percentages ==
    (Returned("get_outliers_information") /\ RowCount(df) >= 1) =>
        \A c \in DOMAIN ret.value :
            /\ IsRounded(ret.value[c].missing_values_percentage,
                         ret.value[c].missing_values_count, RowCount(df))
            /\ IsRounded(ret.value[c].outlier_values_percentage,
                         ret.value[c].outlier_values_count, RowCount(df))
            /\ IsRounded(ret.value[c].non_outlier_values_percentage,
                         ret.value[c].non_outlier_values_count, RowCount(df))
            /\ PercentSum(ret.value[c]) \in 999999..1000001

-----------------------------------------------------------------------------
(* The mean and the standard deviation of the present values of column a,  *)
(* free of fractions: Deviation(x) is n * (x - mean), SquaredDeviations    *)
(* the sum of the squares of the n deviations, so that the population      *)
(* variance is SquaredDeviations / n^3 and the sample variance             *)
(* SquaredDeviations / (n^2 * (n - 1)).                                    *)
Deviation(x) == PresentCount * x - SumSeq(PresentValues)

SquaredDeviations ==
    SumSeq([i \in 1..PresentCount |->
               Deviation(PresentValues[i]) * Deviation(PresentValues[i])])

ZscoreCall ==
    /\ calculation_method = ZSCORE
    /\ Returned("get_outliers")
    /\ call.column = "a"

(* The score of some present value is exactly 3, where the rounding of the *)
(* doubles decides the comparison.                                         *)
ScoreOnThreshold ==
    \E i \in 1..PresentCount :
        PresentCount * Deviation(PresentValues[i]) * Deviation(PresentValues[i])
            = 9 * SquaredDeviations

(* C2.  With the ZSCORE method, get_outliers on a column whose present     *)
(* values have mean m and sample standard deviation s > 0 returns exactly  *)
(* the rows with |v - m| > 3 * s: every such row and no other.  Stated of  *)
(* the columns no score of which rounding decides.                         *)
C2_ZscoreSample ==
    (ZscoreCall /\ PresentCount >= 2 /\ SquaredDeviations > 0 /\ ~ScoreOnThreshold) =>
        ret.value = RowsWhere(LAMBDA x :
            (PresentCount - 1) * Deviation(x) * Deviation(x) > 9 * SquaredDeviations)

-----------------------------------------------------------------------------
ScenarioCall == df = ScenarioTable /\ calculation_method = ZSCORE

(* C3, as claimed.  For the column [1, 2, 3, 4, 5, 100] and the ZSCORE     *)
(* method the row holding 100 is an outlier, the five other rows are       *)
(* non-outliers, and missing_count is 0.                                   *)
C3_ScenarioFlagged ==
    ScenarioCall =>
        /\ (call.op = "get_outliers" /\ call.column = "a") =>
              ret = Return(RowsWhere(LAMBDA x : x = 100))
        /\ (call.op = "get_non_outliers" /\ call.column = "a") =>
              ret = Return(RowsWhere(LAMBDA x : x # 100))
        /\ (call.op = "get_outliers_information" /\ "a" \in Asked(df, call.columns)) =>
              /\ ret.kind = "return"
              /\ ret.value["a"].missing_values_count = 0
              /\ ret.value["a"].outlier_values_count = 1
              /\ ret.value["a"].non_outlier_values_count = 5

(* C3, amended.  For the column [1, 2, 3, 4, 5, 100] and the ZSCORE method *)
(* no row is an outlier (the score of 100 is below 3), the six rows are    *)
(* non-outliers, and missing_count is 0.                                   *)
C3_ScenarioNotFlagged ==
    ScenarioCall =>
        /\ (call.op = "get_outliers" /\ call.column = "a") =>
              ret = Return(RowsWhere(LAMBDA x : FALSE))
        /\ (call.op = "get_non_outliers" /\ call.column = "a") =>
              ret = Return(df)
        /\ (call.op = "get_missing" /\ call.column = "a") =>
              ret = Return(RowsWhere(LAMBDA x : FALSE))
        /\ (call.op = "get_outliers_information" /\ "a" \in Asked(df, call.columns)) =>
              /\ ret.kind = "return"
              /\ ret.value["a"].missing_values_count = 0
              /\ ret.value["a"].outlier_values_count = 0
              /\ ret.value["a"].non_outlier_values_count = 6

C3_Witness ==
    /\ ScenarioCall
    /\ Returned("get_outliers_information")
    /\ "a" \in DOMAIN ret.value
    /\ ret.value["a"].non_outlier_values_count = 6

-----------------------------------------------------------------------------
(* The k-th smallest of the present values of column a. *)
Ranked(k) ==
    CHOOSE x \in {PresentValues[i] : i \in 1..PresentCount} :
        /\ Cardinality({i \in 1..PresentCount : PresentValues[i] < x}) < k
        /\ Cardinality({i \in 1..PresentCount : PresentValues[i] <= x}) >= k

(* Four times the percentile 25 * num of the present values of column a:   *)
(* the point at rank 1 + (n - 1) * num / 4, between the ranked values on   *)
(* either side of it.                                                      *)
Percentile4(num) ==
    LET rank == ((PresentCount - 1) * num) \div 4 + 1
        part == ((PresentCount - 1) * num) % 4
    IN  IF part = 0 THEN 4 * Ranked(rank)
        ELSE (4 - part) * Ranked(rank) + part * Ranked(rank + 1)

(* Eight times the fences Q1 - 1.5 * IQR and Q3 + 1.5 * IQR. *)
LowerFence8 == 2 * Percentile4(1) - 3 * (Percentile4(3) - Percentile4(1))

UpperFence8 == 2 * Percentile4(3) + 3 * (Percentile4(3) - Percentile4(1))

InterquartileCall ==
    /\ calculation_method = INTERQUARTILE
    /\ Returned("get_outliers")
    /\ call.column = "a"

(* C4.  With the INTERQUARTILE method, get_outliers returns exactly the    *)
(* rows with a present value v < Q1 - 1.5 * IQR or v > Q3 + 1.5 * IQR,     *)
(* Q1 and Q3 the 25th and 75th percentiles of the present values by linear *)
(* interpolation between ranked points; a value on or inside the fences is *)
(* not returned.                                                           *)
C4_Interquartile ==
    InterquartileCall =>
        ret.value = RowsWhere(LAMBDA x : 8 * x < LowerFence8 \/ 8 * x > UpperFence8)

(* A column of which the rule flags some rows and not others. *)
C4_Witness ==
    /\ InterquartileCall
    /\ RowCount(ret.value) >= 1
    /\ RowCount(ret.value) < PresentCount

-----------------------------------------------------------------------------
(* Column a holds one value at least, and all its values are equal. *)
ConstantColumn ==
    /\ HasColumn(df, "a")
    /\ PresentCount >= 1
    /\ \A i \in 1..PresentCount : PresentValues[i] = PresentValues[1]

(* C9.  With the ZSCORE method, get_outliers on a column whose present     *)
(* values are all equal does not raise and returns no row, so that every   *)
(* row with a present value is a non-outlier.                              *)
C9_ZeroVariance ==
    (calculation_method = ZSCORE /\ call.op \in {"get_outliers", "get_non_outliers"}
        /\ call.column = "a" /\ ConstantColumn) =>
        /\ call.op = "get_outliers" => ret = Return(RowsWhere(LAMBDA x : FALSE))
        /\ call.op = "get_non_outliers" => ret = Return(RowsWhere(LAMBDA x : TRUE))

C9_Witness ==
    /\ calculation_method = ZSCORE
    /\ Returned("get_outliers")
    /\ call.column = "a"
    /\ ConstantColumn
    /\ PresentCount >= 2
    /\ RowCount(df) > PresentCount
    /\ RowCount(ret.value) = 0

-----------------------------------------------------------------------------
(* C10.  With the ZSCORE method, get_outliers returns no row for a column  *)
(* of 10 or fewer present values, whatever they are: a row is returned     *)
(* only if the column has at least 11 present values.                      *)
C10_AtLeastEleven ==
    ZscoreCall => (RowCount(ret.value) >= 1 => PresentCount >= 11)

=============================================================================
